---- MODULE Spec2Model ----
(***************************************************************************)
(* State machine of the App component of src/index.tsx: the story form,    *)
(* the streamed story generation (handleGenerateStory), and the read-aloud *)
(* controller (handleReadAloud / handleStopReading) driving the browser's  *)
(* speech synthesis queue.                                                 *)
(*                                                                         *)
(* Strings are sequences of one-character strings; the fixed pieces of a   *)
(* template literal are single atoms.  React state is read by a handler as *)
(* of the last render, and a render happens between any two events, so a   *)
(* handler reads the current value of every useState cell.                 *)
(*                                                                         *)
(* The state machine of the page does not compute the story content; the  *)
(* function that does, highlightName, has a specification of its own,      *)
(* SpecHighlight, over texts and names drawn from bounded sets.            *)
(*                                                                         *)
(* Three next-state relations are given.  Next drives the handlers through *)
(* the rendered page (buttons that are disabled or not rendered cannot be  *)
(* clicked, `required` inputs block the form's submit event).              *)
(* NextUnvalidated is the same page with `required` not enforced, so that  *)
(* the handler's own validation is reached.  NextHandlers invokes every    *)
(* handler in any state.                                                   *)
(***************************************************************************)
EXTENDS Integers, Sequences, FiniteSets, TLC

VARIABLES
    name,          \* useState('')      line 10
    age,           \* useState(5)       line 11
    interests,     \* useState('')      line 12
    story,         \* useState('')      line 14
    isLoading,     \* useState(false)   line 15
    isReading,     \* useState(false)   line 16
    error,         \* useState(null)    line 17
    utteranceRef,  \* useRef(null)      line 19
    streams,       \* the invocations of handleGenerateStory suspended at an await, oldest first
    queue,         \* window.speechSynthesis: the phase of each queued utterance, head first
    stale,         \* cancelled utterances whose event the engine has not dispatched yet
    event,         \* history: the handler or callback that ran last
    rendered       \* what highlightName returned for the story content, line 159

vars == <<name, age, interests, story, isLoading, isReading, error,
          utteranceRef, streams, queue, stale, event, rendered>>

form   == <<name, age, interests>>
speech == <<queue, stale, utteranceRef>>

----------------------------------------------------------------------------
(* Bounds of the model *)

\* chunks one stream delivers at most
MaxChunks == 2
\* invocations of handleGenerateStory suspended at the same time
MaxStreams == 2
\* cancelled utterances with an undelivered event
MaxStale == 1

\* length of the texts and of the names highlightName is tried on
MaxTextLen == 3
MaxNameLen == 2

\* values typed into the two text inputs
Names == {<<>>, <<"A">>}
Interests == {<<>>, <<"x">>}
\* texts of a streamed chunk (chunk.text)
ChunkTexts == {<<"a">>, <<"b", "c">>}

----------------------------------------------------------------------------
(* Program constants *)

\* <option value={i + 3}> for i in 0..7
FirstAge == 3
NumAges == 8
Ages == FirstAge .. (FirstAge + NumAges - 1)
\* the options the model selects: the initial value and the last, two-digit one
AgesTried == {5, FirstAge + NumAges - 1}

NoError == "null"
ValidationMsg == "Please fill in the child's name and interests."
GenerationMsg == "Sorry, something went wrong while creating the story. Please try again."
SpeechMsg == "Sorry, an error occurred with the text-to-speech service."

NoUtterance == [text |-> <<"null">>]

\* the story content before highlightName has been called
NotRendered == <<[kind |-> "none", text |-> <<>>]>>

----------------------------------------------------------------------------
(* Strings *)

Digits == <<"0", "1", "2", "3", "4", "5", "6", "7", "8", "9">>

RECURSIVE NumberToString(_)
\* `${age}` : decimal digits of a non-negative integer
NumberToString(n) ==
    IF n < 10 THEN <<Digits[n + 1]>>
    ELSE NumberToString(n \div 10) \o <<Digits[(n % 10) + 1]>>

\* the template interpolates the name in the place of the interests
PromptWithoutInterests(n, a, i) ==
    <<"Create a short, magical story for ">> \o n \o <<", who is ">>
        \o NumberToString(a) \o <<" years old and loves ">> \o n
        \o <<". Make sure ">> \o n \o <<" is the hero of the story.">>

\* the template literal of line 34
Prompt(n, a, i) ==
    <<"Create a short, magical story for ">> \o n \o <<", who is ">>
        \o NumberToString(a) \o <<" years old and loves ">> \o i
        \o <<". Make sure ">> \o n \o <<" is the hero of the story.">>

Contains(s, sub) ==
    \E k \in 0 .. (Len(s) - Len(sub)) : SubSeq(s, k + 1, k + Len(sub)) = sub

IsPrefix(p, s) == Len(p) <= Len(s) /\ SubSeq(s, 1, Len(p)) = p

RECURSIVE Concat(_)
\* c1 + ... + cn
Concat(cs) == IF cs = <<>> THEN <<>> ELSE Head(cs) \o Concat(Tail(cs))

RemoveAt(s, i) == SubSeq(s, 1, i - 1) \o SubSeq(s, i + 1, Len(s))

----------------------------------------------------------------------------
(* Initial state: the first render *)

Init ==
    /\ name = <<>>
    /\ age = 5
    /\ interests = <<>>
    /\ story = <<>>
    /\ isLoading = FALSE
    /\ isReading = FALSE
    /\ error = NoError
    /\ utteranceRef = NoUtterance
    /\ streams = <<>>
    /\ queue = <<>>
    /\ stale = 0
    /\ event = "init"
    /\ rendered = NotRendered

----------------------------------------------------------------------------
(* Form inputs *)

SetName(n) ==
    /\ n # name
    /\ name' = n
    /\ event' = "edit"
    /\ UNCHANGED rendered
    /\ UNCHANGED <<age, interests, story, isLoading, isReading, error, streams, speech>>

SetAge(a) ==
    /\ a # age
    /\ age' = a
    /\ event' = "edit"
    /\ UNCHANGED rendered
    /\ UNCHANGED <<name, interests, story, isLoading, isReading, error, streams, speech>>

SetInterests(i) ==
    /\ i # interests
    /\ interests' = i
    /\ event' = "edit"
    /\ UNCHANGED rendered
    /\ UNCHANGED <<name, age, story, isLoading, isReading, error, streams, speech>>

----------------------------------------------------------------------------
(* handleGenerateStory *)

\* the check of the interests is left out
FormInvalidNameOnly == name = <<>>

\* if (!name || !interests)
FormInvalid == name = <<>> \/ interests = <<>>

\* the invocation as it is suspended at `await generateContentStream(...)`
NewStream ==
    [phase |-> "awaiting",
     contents |-> Prompt(name, age, interests),
     fullStory |-> <<>>,
     received |-> <<>>]

\* setStory('') is left out
HandleGenerateStoryNoClear ==
    /\ event' = "submit"
    /\ UNCHANGED rendered
    /\ IF FormInvalid
       THEN /\ error' = ValidationMsg
            /\ UNCHANGED <<story, isLoading, streams>>
       ELSE /\ Len(streams) < MaxStreams
            /\ error' = NoError
            /\ isLoading' = TRUE
            /\ streams' = Append(streams, NewStream)
            /\ UNCHANGED story
    /\ UNCHANGED <<form, isReading, speech>>

\* the synchronous part of the handler, up to its first await
HandleGenerateStory ==
    /\ event' = "submit"
    /\ UNCHANGED rendered
    /\ IF FormInvalid
       THEN /\ error' = ValidationMsg
            /\ UNCHANGED <<story, isLoading, streams>>
       ELSE /\ Len(streams) < MaxStreams
            /\ error' = NoError
            /\ isLoading' = TRUE
            /\ story' = <<>>
            /\ streams' = Append(streams, NewStream)
    /\ UNCHANGED <<form, isReading, speech>>

\* generateContentStream resolves: the handler enters the for-await loop
StreamOpen(i) ==
    /\ streams[i].phase = "awaiting"
    /\ streams' = [streams EXCEPT ![i].phase = "streaming", ![i].contents = <<>>]
    /\ event' = "open"
    /\ UNCHANGED rendered
    /\ UNCHANGED <<form, story, isLoading, isReading, error, speech>>

\* fullStory = chunk.text
AppendChunkReplaces(fullStory, text) == text

\* fullStory += chunk.text
AppendChunk(fullStory, text) == fullStory \o text

\* one iteration of the for-await loop
StreamChunk(i, text) ==
    /\ streams[i].phase = "streaming"
    /\ Len(streams[i].received) < MaxChunks
    /\ LET fs == AppendChunk(streams[i].fullStory, text) IN
         /\ streams' = [streams EXCEPT ![i].fullStory = fs,
                                       ![i].received = Append(@, text)]
         /\ story' = fs
    /\ event' = "chunk"
    /\ UNCHANGED rendered
    /\ UNCHANGED <<form, isLoading, isReading, error, speech>>

\* setIsLoading(false) after the loop is left out
StreamEndNoFinally(i) ==
    /\ streams[i].phase = "streaming"
    /\ streams' = RemoveAt(streams, i)
    /\ event' = "end"
    /\ UNCHANGED rendered
    /\ UNCHANGED <<form, story, isLoading, isReading, error, speech>>

\* the stream is exhausted: the loop ends, then finally
StreamEnd(i) ==
    /\ streams[i].phase = "streaming"
    /\ streams' = RemoveAt(streams, i)
    /\ isLoading' = FALSE
    /\ event' = "end"
    /\ UNCHANGED rendered
    /\ UNCHANGED <<form, story, isReading, error, speech>>

\* setIsLoading(false) is in the try block instead of finally
StreamFailNoFinally(i) ==
    /\ streams' = RemoveAt(streams, i)
    /\ error' = GenerationMsg
    /\ event' = "fail"
    /\ UNCHANGED rendered
    /\ UNCHANGED <<form, story, isLoading, isReading, speech>>

\* generateContentStream rejects or the iteration throws: catch, then finally
StreamFail(i) ==
    /\ streams' = RemoveAt(streams, i)
    /\ error' = GenerationMsg
    /\ isLoading' = FALSE
    /\ event' = "fail"
    /\ UNCHANGED rendered
    /\ UNCHANGED <<form, story, isReading, speech>>

----------------------------------------------------------------------------
(* Read aloud *)

\* new SpeechSynthesisUtterance(story)
NewUtterance == [text |-> story]

\* window.speechSynthesis.speaking: an utterance has begun and not completed
Speaking == \E k \in 1 .. Len(queue) : queue[k].phase = "speaking"

HandleReadAloud ==
    /\ event' = "readAloud"
    /\ UNCHANGED rendered
    /\ IF isReading \/ story = <<>>
       THEN UNCHANGED <<isReading, speech>>
       ELSE /\ utteranceRef' = NewUtterance
            /\ queue' = Append(queue, [phase |-> "pending"])
            /\ isReading' = TRUE
            /\ UNCHANGED stale
    /\ UNCHANGED <<form, story, isLoading, error, streams>>

\* cancel() empties the queue; the engine may still dispatch an error event
\* ("interrupted" / "canceled") to each removed utterance later
HandleStopReading ==
    /\ event' = "stopReading"
    /\ UNCHANGED rendered
    /\ IF Speaking
       THEN /\ queue' = <<>>
            /\ stale' \in {k \in stale .. (stale + Len(queue)) : k <= MaxStale}
            /\ isReading' = FALSE
            /\ utteranceRef' = NoUtterance
       ELSE UNCHANGED <<isReading, speech>>
    /\ UNCHANGED <<form, story, isLoading, error, streams>>

\* utterance.onend
OnEnd ==
    /\ isReading' = FALSE
    /\ utteranceRef' = NoUtterance
    /\ UNCHANGED error

\* setIsReading(false) is left out of the error callback
OnErrorKeepsReading ==
    /\ error' = SpeechMsg
    /\ UNCHANGED <<isReading, utteranceRef>>

\* utterance.onerror
OnError ==
    /\ error' = SpeechMsg
    /\ isReading' = FALSE
    /\ UNCHANGED utteranceRef

----------------------------------------------------------------------------
(* The speech engine *)

\* the head of the queue begins to be spoken
EngineStart ==
    /\ queue # <<>>
    /\ Head(queue).phase = "pending"
    /\ queue' = [queue EXCEPT ![1].phase = "speaking"]
    /\ event' = "start"
    /\ UNCHANGED rendered
    /\ UNCHANGED <<form, story, isLoading, isReading, error, streams, stale, utteranceRef>>

\* the utterance being spoken completes: its end event
EngineEnd ==
    /\ queue # <<>>
    /\ Head(queue).phase = "speaking"
    /\ queue' = Tail(queue)
    /\ OnEnd
    /\ event' = "onend"
    /\ UNCHANGED rendered
    /\ UNCHANGED <<form, story, isLoading, streams, stale>>

\* the head of the queue cannot be spoken, or fails while spoken: its error event
EngineError ==
    /\ queue # <<>>
    /\ queue' = Tail(queue)
    /\ OnError
    /\ event' = "onerror"
    /\ UNCHANGED rendered
    /\ UNCHANGED <<form, story, isLoading, streams, stale>>

\* the error event of an utterance that cancel() removed
EngineCancelled ==
    /\ stale > 0
    /\ stale' = stale - 1
    /\ OnError
    /\ event' = "onerror"
    /\ UNCHANGED rendered
    /\ UNCHANGED <<form, story, isLoading, streams, queue>>

----------------------------------------------------------------------------
(* highlightName *)

UpperCase == <<"A", "B", "C", "D", "E", "F", "G", "H", "I", "J", "K", "L", "M",
               "N", "O", "P", "Q", "R", "S", "T", "U", "V", "W", "X", "Y", "Z">>
LowerCase == <<"a", "b", "c", "d", "e", "f", "g", "h", "i", "j", "k", "l", "m",
               "n", "o", "p", "q", "r", "s", "t", "u", "v", "w", "x", "y", "z">>

ToLowerChar(c) ==
    IF \E k \in 1 .. 26 : UpperCase[k] = c
    THEN LowerCase[CHOOSE k \in 1 .. 26 : UpperCase[k] = c]
    ELSE c

ToUpperChar(c) ==
    IF \E k \in 1 .. 26 : LowerCase[k] = c
    THEN UpperCase[CHOOSE k \in 1 .. 26 : LowerCase[k] = c]
    ELSE c

\* String.prototype.toLowerCase
ToLowerCase(s) == [k \in 1 .. Len(s) |-> ToLowerChar(s[k])]

WhiteSpace == {" ", "\t", "\n", "\r"}
LineTerminators == {"\n", "\r"}

RECURSIVE TrimStart(_)
TrimStart(s) ==
    IF s # <<>> /\ Head(s) \in WhiteSpace THEN TrimStart(Tail(s)) ELSE s

RECURSIVE TrimEnd(_)
TrimEnd(s) ==
    IF s # <<>> /\ s[Len(s)] \in WhiteSpace
    THEN TrimEnd(SubSeq(s, 1, Len(s) - 1))
    ELSE s

\* String.prototype.trim
Trim(s) == TrimEnd(TrimStart(s))

\* only the empty name is taken for blank
IsBlankNoTrim(nameToHighlight) == nameToHighlight = <<>>

\* !nameToHighlight.trim()
IsBlank(nameToHighlight) == Trim(nameToHighlight) = <<>>

\* one character of the name as an atom of the pattern `(${nameToHighlight})`
\* under the flag i: a dot matches any character but a line terminator, a
\* letter or a space matches itself ignoring case
AtomMatches(atom, c) ==
    IF atom = "." THEN c \notin LineTerminators
    ELSE ToUpperChar(atom) = ToUpperChar(c)

\* the pattern matches text at position q
MatchesAt(text, q, pattern) ==
    /\ q + Len(pattern) - 1 <= Len(text)
    /\ \A k \in 1 .. Len(pattern) : AtomMatches(pattern[k], text[q + k - 1])

RECURSIVE SplitFrom(_, _, _, _)
\* the loop of RegExp.prototype[Symbol.split] for a pattern of one capturing
\* group that matches no empty string: p is where the pending piece begins,
\* q where the next match is tried
SplitFrom(text, pattern, p, q) ==
    IF q > Len(text) THEN <<SubSeq(text, p, Len(text))>>
    ELSE IF MatchesAt(text, q, pattern)
         THEN <<SubSeq(text, p, q - 1), SubSeq(text, q, q + Len(pattern) - 1)>>
                  \o SplitFrom(text, pattern, q + Len(pattern), q + Len(pattern))
         ELSE SplitFrom(text, pattern, p, q + 1)

\* text.split(new RegExp(`(${nameToHighlight})`, 'gi'))
Split(text, nameToHighlight) == SplitFrom(text, nameToHighlight, 1, 1)

\* <strong> or <Fragment> around one part
Segment(part, nameToHighlight) ==
    [kind |-> IF ToLowerCase(part) = ToLowerCase(nameToHighlight)
              THEN "strong" ELSE "plain",
     text |-> part]

\* the text itself for a blank name, else one element for each part
HighlightName(text, nameToHighlight) ==
    IF IsBlank(nameToHighlight)
    THEN <<[kind |-> "plain", text |-> text]>>
    ELSE LET parts == Split(text, nameToHighlight) IN
           [k \in 1 .. Len(parts) |-> Segment(parts[k], nameToHighlight)]

\* characters of the texts and names tried: a letter in both cases, another
\* letter, the dot and the space
HlChars == {"L", "l", "y", ".", " "}

SeqsUpTo(S, n) == UNION {[1 .. k -> S] : k \in 0 .. n}

ExampleText ==
    <<"L", "i", "l", "y", " ", "m", "e", "t", " ", "a", " ", "d", "r", "a",
      "g", "o", "n", ".", " ", "l", "i", "l", "y", " ", "s", "m", "i", "l",
      "e", "d", ".">>
ExampleName == <<"L", "i", "l", "y">>

HlTexts == SeqsUpTo(HlChars, MaxTextLen) \cup {ExampleText}
HlNames == SeqsUpTo(HlChars, MaxNameLen) \cup {ExampleName}

\* a story and a name for which the content has not been computed yet
InitHighlight ==
    /\ name \in HlNames
    /\ story \in HlTexts
    /\ age = 5
    /\ interests = <<>>
    /\ isLoading = FALSE
    /\ isReading = FALSE
    /\ error = NoError
    /\ utteranceRef = NoUtterance
    /\ streams = <<>>
    /\ queue = <<>>
    /\ stale = 0
    /\ event = "init"
    /\ rendered = NotRendered

\* {highlightName(story, name)}
RenderStory ==
    /\ rendered = NotRendered
    /\ rendered' = HighlightName(story, name)
    /\ event' = "render"
    /\ UNCHANGED <<form, story, isLoading, isReading, error, streams, speech>>

NextHighlight == RenderStory

SpecHighlight == InitHighlight /\ [][NextHighlight]_vars

----------------------------------------------------------------------------
(* The rendered page *)

\* the submit button is not disabled while loading
SubmitEnabledWhileLoading == name # <<>> /\ interests # <<>>

\* <button type="submit" disabled={isLoading}>, and both text inputs `required`
SubmitEnabled == ~isLoading /\ name # <<>> /\ interests # <<>>

\* the toggle is not disabled while loading
ToggleEnabledWhileLoading == story # <<>>

\* {story && <button disabled={isLoading} onClick={isReading ? stop : read}>}
ToggleEnabled == story # <<>> /\ ~isLoading

ClickSubmit == SubmitEnabled /\ HandleGenerateStory

\* the submit event of a form whose `required` inputs are not enforced
\* (a scripted submit event, a form marked novalidate)
SubmitUnvalidated == ~isLoading /\ HandleGenerateStory

ClickReadAloud == ToggleEnabled /\ ~isReading /\ HandleReadAloud

ClickStopReading == ToggleEnabled /\ isReading /\ HandleStopReading

----------------------------------------------------------------------------
(* Specifications *)

Edit ==
    \/ \E n \in Names : SetName(n)
    \/ \E a \in AgesTried : SetAge(a)
    \/ \E i \in Interests : SetInterests(i)

\* the service answers a suspended invocation
Deliver ==
    \E i \in 1 .. Len(streams) :
        \/ StreamOpen(i)
        \/ \E text \in ChunkTexts : StreamChunk(i, text)
        \/ StreamEnd(i)
        \/ StreamFail(i)

Engine == EngineStart \/ EngineEnd \/ EngineError \/ EngineCancelled

\* the page as a user drives it
Next ==
    \/ Edit
    \/ ClickSubmit
    \/ Deliver
    \/ ClickReadAloud
    \/ ClickStopReading
    \/ Engine

Spec == Init /\ [][Next]_vars

\* the page, with the `required` attributes of the inputs not enforced
NextUnvalidated ==
    \/ Edit
    \/ SubmitUnvalidated
    \/ Deliver
    \/ ClickReadAloud
    \/ ClickStopReading
    \/ Engine

SpecUnvalidated == Init /\ [][NextUnvalidated]_vars

\* every handler invoked in any state
NextHandlers ==
    \/ Edit
    \/ HandleGenerateStory
    \/ Deliver
    \/ HandleReadAloud
    \/ HandleStopReading
    \/ Engine

SpecHandlers == Init /\ [][NextHandlers]_vars

\* the service eventually answers every suspended invocation
FairSpec == Spec /\ WF_vars(Deliver)

TypeOK ==
    /\ name \in Names
    /\ age \in Ages
    /\ interests \in Interests
    /\ isLoading \in BOOLEAN
    /\ isReading \in BOOLEAN
    /\ error \in {NoError, ValidationMsg, GenerationMsg, SpeechMsg}
    /\ Len(streams) <= MaxStreams
    /\ Len(queue) <= MaxStale + 1
    /\ stale \in 0 .. MaxStale

----------------------------------------------------------------------------
(* Properties *)

\* the form passes the handler's validation
ValidForm == name # <<>> /\ interests # <<>>

\* the text of each option of the age selector, as it reads in a prompt
AgeText ==
    [a \in Ages |->
        CASE a = 3 -> <<"3">> [] a = 4 -> <<"4">> [] a = 5 -> <<"5">>
          [] a = 6 -> <<"6">> [] a = 7 -> <<"7">> [] a = 8 -> <<"8">>
          [] a = 9 -> <<"9">> [] a = 10 -> <<"1", "0">>]

\* the step is taken by the invocation at position i, which stays suspended
\* and has received one more chunk
ReceivedChunk(i) ==
    /\ Len(streams') = Len(streams)
    /\ i \in 1 .. Len(streams)
    /\ Len(streams'[i].received) = Len(streams[i].received) + 1

\* the step ends the invocation at position i
Finished(i) ==
    /\ i \in 1 .. Len(streams)
    /\ streams' = RemoveAt(streams, i)

\* C1: a submit that passes validation leaves StoryText empty, whatever it
\* held, and the invocation it starts has appended no chunk yet.
C1_SubmitClearsStory ==
    [][(event' = "submit" /\ ValidForm) =>
          /\ story' = <<>>
          /\ Len(streams') = Len(streams) + 1
          /\ streams'[Len(streams')].received = <<>>
          /\ streams'[Len(streams')].fullStory = <<>>]_vars

\* a generation has just been started while an earlier story is in the
\* speech queue
C1_Witness ==
    /\ event = "submit"
    /\ isLoading
    /\ story = <<>>
    /\ queue # <<>>
    /\ utteranceRef # NoUtterance
    /\ utteranceRef.text # <<>>

\* C2: after a submit that passes validation SpeechState is NotReading.
C2_SubmitStopsReading ==
    [][(event' = "submit" /\ ValidForm) => ~isReading']_vars

\* C3: a submit with an empty name or empty interests sets the validation
\* message, starts no request, and leaves StoryText, the loading flag and the
\* reading flag as they were.
C3_InvalidSubmit ==
    [][(event' = "submit" /\ (name = <<>> \/ interests = <<>>)) =>
          /\ error' = ValidationMsg
          /\ streams' = streams
          /\ story' = story
          /\ isLoading' = isLoading
          /\ isReading' = isReading]_vars

\* an invalid submit made while a story is displayed and read aloud
C3_Witness ==
    /\ event = "submit"
    /\ error = ValidationMsg
    /\ ~ValidForm
    /\ story # <<>>
    /\ isReading

\* C4: a submit of a valid form starts exactly one request, whose prompt
\* contains the name, the age and the interests of the form.
C4_OneRequestWithPrompt ==
    [][(event' = "submit" /\ ValidForm /\ age \in Ages) =>
          /\ Len(streams') = Len(streams) + 1
          /\ SubSeq(streams', 1, Len(streams)) = streams
          /\ LET call == streams'[Len(streams')] IN
               /\ call.phase = "awaiting"
               /\ Contains(call.contents, name)
               /\ Contains(call.contents, AgeText[age])
               /\ Contains(call.contents, interests)]_vars

\* a request for the oldest age of the selector has just been issued
C4_Witness ==
    /\ event = "submit"
    /\ streams # <<>>
    /\ age = 10
    /\ LET call == streams[Len(streams)] IN
         /\ call.phase = "awaiting"
         /\ Contains(call.contents, <<" years old and loves ", "x">>)
         /\ Contains(call.contents, <<"1", "0">>)

\* C5: each chunk publishes the concatenation of the chunks received so far,
\* which extends the value published before, and when the stream is
\* exhausted StoryText is the concatenation of all its chunks.
C5_StoryIsConcatenation ==
    [][/\ event' = "chunk" =>
            \E i \in 1 .. Len(streams) :
                /\ ReceivedChunk(i)
                /\ story' = Concat(streams'[i].received)
                /\ IsPrefix(story, story')
       /\ event' = "end" =>
            \E i \in 1 .. Len(streams) :
                /\ Finished(i)
                /\ story' = story
                /\ story = Concat(streams[i].received)]_vars

\* a stream of two chunks, "a" then "bc", has been exhausted
C5_Witness ==
    /\ event = "end"
    /\ story = <<"a", "b", "c">>
    /\ streams = <<>>
    /\ ~isLoading

\* C6: a failure after k chunks leaves StoryText the concatenation of those
\* chunks, sets the generation message and clears the loading flag, and no
\* invocation remains to append to StoryText before the next submit.
C6_FailureKeepsPartialStory ==
    /\ [][event' = "fail" =>
            \E i \in 1 .. Len(streams) :
                /\ Finished(i)
                /\ story' = Concat(streams[i].received)
                /\ error' = GenerationMsg
                /\ ~isLoading'
                /\ streams' = <<>>]_vars
    /\ [][(streams = <<>> /\ event' # "submit") => story' = story]_vars

\* a stream has failed after one chunk
C6_Witness ==
    /\ event = "fail"
    /\ story = <<"b", "c">>
    /\ error = GenerationMsg
    /\ ~isLoading

\* C7: at most one utterance is in the speech engine's queue.
C7_OneActivePlayback == Len(queue) <= 1

\* C8: after a call of stop SpeechState is NotReading.
C8_StopEndsReading ==
    [][event' = "stopReading" => ~isReading']_vars

\* C9: the completion callback ends Reading and keeps the error message, the
\* error callback ends Reading and sets the speech message; neither changes
\* StoryText or the loading flag.
C9_SpeechCallbacks ==
    [][/\ event' = "onend" =>
            (~isReading' /\ error' = error /\ story' = story /\ isLoading' = isLoading)
       /\ event' = "onerror" =>
            (~isReading' /\ error' = SpeechMsg /\ story' = story /\ isLoading' = isLoading)]_vars

\* the error callback has run while the next story streams
C9_Witness ==
    /\ event = "onerror"
    /\ error = SpeechMsg
    /\ ~isReading
    /\ isLoading

\* C10: the loading flag eventually becomes false, and it becomes false only
\* by the exhaustion of a stream, with no generation message, or by a
\* failure, with the generation message.
C10_LoadingEnds ==
    /\ isLoading ~> ~isLoading
    /\ [][(isLoading /\ ~isLoading') =>
            \/ event' = "end" /\ error' # GenerationMsg
            \/ event' = "fail" /\ error' = GenerationMsg]_vars

\* a generation has ended by exhaustion while a speech error is displayed
C10_Witness ==
    /\ event = "end"
    /\ ~isLoading
    /\ error = SpeechMsg
    /\ streams = <<>>

\* a and b are the same string up to the case of their letters
SameIgnoringCase(a, b) ==
    /\ Len(a) = Len(b)
    /\ \A k \in 1 .. Len(a) : ToUpperChar(a[k]) = ToUpperChar(b[k])

\* nm occurs in s, ignoring case
OccursIgnoringCase(nm, s) ==
    \E k \in 0 .. (Len(s) - Len(nm)) :
        SameIgnoringCase(SubSeq(s, k + 1, k + Len(nm)), nm)

\* C11: for a name that is not blank, the segments of highlight(text, name)
\* concatenate to text, a segment is emphasized exactly when it equals the
\* name ignoring case, and the segments are the matches and the non-empty
\* texts between them: none is empty, no plain segment holds an occurrence
\* of the name, no two plain segments are adjacent; the example of Lily
\* yields its four segments.
C11_HighlightSplitsAtName ==
    (event = "render" /\ \E k \in 1 .. Len(name) : name[k] \notin WhiteSpace) =>
        /\ Concat([k \in 1 .. Len(rendered) |-> rendered[k].text]) = story
        /\ \A k \in 1 .. Len(rendered) :
              /\ rendered[k].kind = "strong" <=> SameIgnoringCase(rendered[k].text, name)
              /\ rendered[k].text # <<>>
              /\ rendered[k].kind = "plain" => ~OccursIgnoringCase(name, rendered[k].text)
        /\ \A k \in 1 .. (Len(rendered) - 1) :
              ~(rendered[k].kind = "plain" /\ rendered[k + 1].kind = "plain")
        /\ (story = ExampleText /\ name = ExampleName) =>
              rendered = <<[kind |-> "strong", text |-> <<"L", "i", "l", "y">>],
                           [kind |-> "plain", text |-> SubSeq(ExampleText, 5, 19)],
                           [kind |-> "strong", text |-> <<"l", "i", "l", "y">>],
                           [kind |-> "plain", text |-> SubSeq(ExampleText, 24, 31)]>>

\* C12: for a name that is empty or made of whitespace only, highlight
\* returns one plain segment, equal to the text.
C12_BlankNameOnePlainSegment ==
    (event = "render" /\ \A k \in 1 .. Len(name) : name[k] \in WhiteSpace) =>
        rendered = <<[kind |-> "plain", text |-> story]>>

\* the content of a text with spaces in it has been computed for a name of
\* two spaces
C12_Witness ==
    /\ event = "render"
    /\ name = <<" ", " ">>
    /\ story = <<"l", " ", " ">>
    /\ Len(rendered) = 1

\* C13: between submissions StoryText changes only by a chunk step, which
\* appends one chunk text to the value it held, also when invocations of
\* handleGenerateStory overlap.
C13_AppendOnly ==
    [][(story' # story /\ event' # "submit") =>
          /\ event' = "chunk"
          /\ \E text \in ChunkTexts : story' = story \o text]_vars

\* C14: a valid submit enters Loading with the error message cleared, and no
\* error message is set while the loading flag is true.
C14_RequestStateExclusive ==
    /\ [][(event' = "submit" /\ ValidForm) => (isLoading' /\ error' = NoError)]_vars
    /\ [](isLoading => error = NoError)

\* C15: with submissions made through the submit button only, at most one
\* invocation of handleGenerateStory is in flight, and the loading flag is
\* true exactly while one is.
C15_OneStreamInFlight ==
    /\ Len(streams) <= 1
    /\ isLoading <=> streams # <<>>

\* a stream is delivering while the form is valid, so that only the disabled
\* button keeps a second submit away
C15_Witness ==
    /\ isLoading
    /\ Len(streams) = 1
    /\ streams[1].phase = "streaming"
    /\ Len(streams[1].received) = 1
    /\ ValidForm
    /\ event = "edit"

\* C16: an utterance is handed to the speech engine only while no generation
\* is loading or in flight, and its text is the whole, non-empty StoryText,
\* which no invocation is left to extend.
C16_SpeaksFinishedStory ==
    [][(event' = "readAloud" /\ queue' # queue) =>
          /\ ~isLoading
          /\ streams = <<>>
          /\ story # <<>>
          /\ Len(queue') = Len(queue) + 1
          /\ utteranceRef' = [text |-> story]
          /\ story' = story]_vars

\* the partial story left by a failure has been handed to the speech engine
C16_Witness ==
    /\ event = "readAloud"
    /\ queue # <<>>
    /\ isReading
    /\ error = GenerationMsg
    /\ story = <<"a", "b", "c">>
    /\ utteranceRef = [text |-> story]

====
